---- MODULE Spec2Model ----
(***************************************************************************)
(* String Analyzer Service (src/index.js, the service of lines 385-674).   *)
(* An Express application over one in-memory Map<sha256, record>, with a   *)
(* best-effort JSON snapshot on disk.  Every route handler is synchronous  *)
(* JavaScript: it runs to completion before the event loop delivers the    *)
(* next request, so one handler is one atomic step.                        *)
(*                                                                         *)
(* JavaScript strings are TLA+ strings, read character by character with   *)
(* SubSeq.  JavaScript values whose type the code tests are tagged         *)
(* records.                                                                *)
(***************************************************************************)
EXTENDS Integers, Sequences, FiniteSets, TLC

VARIABLES
    store,      \* the Map: a sequence of records in insertion order, ids distinct
    disk,       \* strings.json: Missing, Corrupt, or a serialized snapshot
    now,        \* the wall clock, in milliseconds since the epoch
    pending,    \* per client connection: the request in flight, or NoReq
    resp,       \* the response the server sent last, with its request
    raced,      \* history, per client: the clients whose identical request
                \* was in flight together with this client's request
    peers       \* history: raced[c] of the client the last response went to

vars == <<store, disk, now, pending, resp, raced, peers>>

---------------------------------------------------------------------------
(* Bounds *)

MaxNow == 1

Clients == {"c1", "c2"}

---------------------------------------------------------------------------
(* JavaScript values *)

Undefined == [t |-> "undefined"]
Null == [t |-> "null"]
JsString(s) == [t |-> "string", v |-> s]
JsNumber(n) == [t |-> "number", n |-> n]
NaN == [t |-> "number", nan |-> TRUE]

typeof(x) == IF x = Null THEN "object" ELSE x.t

---------------------------------------------------------------------------
(* Strings *)

\* s[i], 1-based; the empty string outside the string
Ch(s, i) == IF i >= 1 /\ i <= Len(s) THEN SubSeq(s, i, i) ELSE ""

CharsOf(s) == {Ch(s, i) : i \in 1..Len(s)}

UpperCase == "ABCDEFGHIJKLMNOPQRSTUVWXYZ"
LowerCase == "abcdefghijklmnopqrstuvwxyz"
Digits == "0123456789"

\* String.prototype.toLowerCase, one character
toLowerCaseCh(c) ==
    IF c \in CharsOf(UpperCase)
    THEN Ch(LowerCase, CHOOSE i \in 1..26 : Ch(UpperCase, i) = c)
    ELSE c

\* the one element of a singleton set
The(set) == CHOOSE x \in set : TRUE

RECURSIVE LowerFrom(_, _)
LowerFrom(s, i) ==
    IF i > Len(s) THEN ""
    ELSE toLowerCaseCh(Ch(s, i)) \o LowerFrom(s, i + 1)

toLowerCase(s) == LowerFrom(s, 1)

\* s.split('').reverse().join('')
RECURSIVE ReverseFrom(_, _)
ReverseFrom(s, i) ==
    IF i > Len(s) THEN ""
    ELSE ReverseFrom(s, i + 1) \o Ch(s, i)

Reverse(s) == ReverseFrom(s, 1)

\* the characters \s and trim() take for white space
WhiteSpace == {" ", "\t", "\n", "\r", "\f"}

IsSpaceAt(s, i) == i >= 1 /\ i <= Len(s) /\ Ch(s, i) \in WhiteSpace

\* String.prototype.trim
trim(s) ==
    LET solid == {i \in 1..Len(s) : ~IsSpaceAt(s, i)}
    IN  IF solid = {} THEN ""
        ELSE LET lo == CHOOSE i \in solid : \A j \in solid : i <= j
                 hi == CHOOSE i \in solid : \A j \in solid : j <= i
             IN  SubSeq(s, lo, hi)

\* String.prototype.includes with a one-character argument: exact match
includesMut(s, c) == toLowerCaseCh(c) \in CharsOf(toLowerCase(s))

includes(s, c) == c \in CharsOf(s)

\* String.prototype.includes with a search string of any length
includesString(s, sub) ==
    \/ Len(sub) = 0
    \/ \E i \in 1..(Len(s) - Len(sub) + 1) : SubSeq(s, i, i + Len(sub) - 1) = sub

---------------------------------------------------------------------------
(* String analysis, src/index.js 411-451 *)

\* new Date(ms).toISOString(), for the first milliseconds of the epoch
nowISO(ms) == "1970-01-01T00:00:00.00" \o Ch(Digits, ms + 1) \o "Z"

\* the first 12 hex digits of the SHA-256 digest of the UTF-8 bytes
sha256Hex(s) ==
    CASE s = ""       -> "e3b0c44298fc"
      [] s = "a"      -> "ca978112ca1b"
      [] s = "Aa"     -> "81acaafba961"
      [] s = "ab"     -> "fb8e20fc2e4c"
      [] s = "a b"    -> "c8687a08aa5d"
      [] s = "aba"    -> "e124adcce1fb"
      [] s = "hi"     -> "8f434346648f"
      [] s = "hello!" -> "ce06092fb948"
      [] s = "z"      -> "594e519ae499"
      [] s = "A man"  -> "0432ad29a195"
      [] s = "Madam"  -> "026486846129"
      [] s = "filter-by-natural-language" -> "f25a546f0120"

countWords(s) ==
    IF trim(s) = "" THEN 0
    ELSE The({1 + Cardinality({i \in 2..Len(t) :
                                 IsSpaceAt(t, i) /\ ~IsSpaceAt(t, i - 1)}) :
                t \in {trim(s)}})

characterFrequencyMap(s) ==
    [c \in CharsOf(s) |-> Cardinality({i \in 1..Len(s) : Ch(s, i) = c})]

uniqueCharacterCount(s) == Cardinality(CharsOf(s))

isPalindromeCaseInsensitive(s) ==
    \E folded \in {toLowerCase(s)} : folded = Reverse(folded)

analyzeString(value) ==
    [ length                  |-> Len(value),
      is_palindrome           |-> isPalindromeCaseInsensitive(value),
      unique_characters       |-> uniqueCharacterCount(value),
      word_count              |-> countWords(value),
      sha256_hash             |-> sha256Hex(value),
      character_frequency_map |-> characterFrequencyMap(value) ]

---------------------------------------------------------------------------
(* The Map and its snapshot, src/index.js 409, 453-482 *)

\* Map.prototype.set: replace in place under an existing key, else append
MapSet(st, id, rec) ==
    IF \E i \in 1..Len(st) : st[i].id = id
    THEN [i \in 1..Len(st) |-> IF st[i].id = id THEN rec ELSE st[i]]
    ELSE Append(st, rec)

\* Map.prototype.delete
MapDelete(st, id) == SelectSeq(st, LAMBDA r : r.id # id)

\* findByValue: the first record whose value is exactly `value`, else null
findByValueMut(st, value) == Null

findByValue(st, value) ==
    LET hits == {i \in 1..Len(st) : st[i].value = value}
    IN  IF hits = {} THEN Null
        ELSE st[CHOOSE i \in hits : \A j \in hits : i <= j]

Missing == [file |-> "missing"]
Corrupt == [file |-> "corrupt"]

\* JSON.stringify of the array of records / JSON.parse of the file
Stringify(st) ==
    [file |-> "json",
     text |-> [i \in 1..Len(st) |->
                 <<st[i].id, st[i].value, st[i].properties, st[i].created_at>>]]

Parse(f) ==
    [i \in 1..Len(f.text) |->
        [id |-> f.text[i][1], value |-> f.text[i][2],
         properties |-> f.text[i][3], created_at |-> f.text[i][4]]]

\* what strings.json holds after persistData: the snapshot, or, when
\* writeFileSync throws, the old file or a truncated one
persistData(st, old) == {Stringify(st), old, Corrupt}

\* loadData into the empty Map of a new process
RECURSIVE LoadInto(_, _, _)
LoadInto(st, arr, i) ==
    IF i > Len(arr) THEN st
    ELSE The({LoadInto(next, arr, i + 1) :
                next \in {MapSet(st, arr[i].id, arr[i])}})

loadData(f) ==
    IF f = Missing \/ f = Corrupt THEN <<>>
    ELSE The({LoadInto(<<>>, arr, 1) : arr \in {Parse(f)}})

---------------------------------------------------------------------------
(* Requests and responses *)

NoReq == [method |-> "none"]
NoResp == [req |-> NoReq, status |-> 0]

NoBody == [hasValue |-> FALSE, value |-> Undefined]
ValueBody(x) == [hasValue |-> TRUE, value |-> x]

NoQuery ==
    [is_palindrome |-> Undefined, min_length |-> Undefined,
     max_length |-> Undefined, word_count |-> Undefined,
     contains_character |-> Undefined, query |-> Undefined]

Request(method, path, isJson, body, query) ==
    [method |-> method, path |-> path, isJson |-> isJson, body |-> body,
     query |-> query]

\* what a handler hands back: the response, the Map it leaves, and whether
\* it called persistData
Reply(status, body, st, persist) ==
    [status |-> status, body |-> body, store |-> st, persist |-> persist]

send400(st, message) == Reply(400, [error |-> message], st, FALSE)
send422(st, message) == Reply(422, [error |-> message], st, FALSE)
\* persistData called before the record is looked up
send404Mut(st) ==
    Reply(404, [error |-> "String does not exist in the system"], st, TRUE)

send404(st) ==
    Reply(404, [error |-> "String does not exist in the system"], st, FALSE)

\* objects built key by key: filters, parsed
EmptyObject == <<>>
Put(obj, k, v) == (k :> v) @@ obj
Has(obj, k) == k \in DOMAIN obj

---------------------------------------------------------------------------
(* POST /strings, src/index.js 495-524 *)

PostStringsMut(st, req, t) ==
    IF ~req.isJson
    THEN send400(st, "Content-Type must be application/json")
    ELSE IF ~req.body.hasValue
    THEN send400(st, "Missing \"value\" field in request body")
    ELSE IF typeof(req.body.value) # "string"
    THEN send422(st, "\"value\" must be a string")
    ELSE LET value == req.body.value.v
             props == analyzeString(value)
             rec == [id |-> props.sha256_hash, value |-> value,
                     properties |-> props, created_at |-> nowISO(t)]
         IN  Reply(201, rec, Append(st, rec), TRUE)

\* store.set without the test of findByValue: a stored value is written anew
PostStringsUpsert(st, req, t) ==
    IF ~req.isJson
    THEN send400(st, "Content-Type must be application/json")
    ELSE IF ~req.body.hasValue
    THEN send400(st, "Missing \"value\" field in request body")
    ELSE IF typeof(req.body.value) # "string"
    THEN send422(st, "\"value\" must be a string")
    ELSE LET value == req.body.value.v
             props == analyzeString(value)
             rec == [id |-> props.sha256_hash, value |-> value,
                     properties |-> props, created_at |-> nowISO(t)]
         IN  Reply(201, rec, MapSet(st, rec.id, rec), TRUE)

\* `if (!value)` in place of the hasOwnProperty test
PostStringsFalsy(st, req, t) ==
    IF ~req.isJson
    THEN send400(st, "Content-Type must be application/json")
    ELSE IF ~req.body.hasValue \/ req.body.value = JsString("")
    THEN send400(st, "Missing \"value\" field in request body")
    ELSE IF typeof(req.body.value) # "string"
    THEN send422(st, "\"value\" must be a string")
    ELSE LET value == req.body.value.v
             existing == findByValue(st, value)
         IN  IF existing # Null
             THEN Reply(409,
                        [error |-> "String already exists in the system"],
                        st, FALSE)
             ELSE LET props == analyzeString(value)
                      rec == [id |-> props.sha256_hash, value |-> value,
                              properties |-> props, created_at |-> nowISO(t)]
                  IN  Reply(201, rec, MapSet(st, rec.id, rec), TRUE)

PostStrings(st, req, t) ==
    IF ~req.isJson
    THEN send400(st, "Content-Type must be application/json")
    ELSE IF ~req.body.hasValue
    THEN send400(st, "Missing \"value\" field in request body")
    ELSE IF typeof(req.body.value) # "string"
    THEN send422(st, "\"value\" must be a string")
    ELSE LET value == req.body.value.v
             existing == findByValue(st, value)
         IN  IF existing # Null
             THEN Reply(409,
                        [error |-> "String already exists in the system"],
                        st, FALSE)
             ELSE LET props == analyzeString(value)
                      rec == [id |-> props.sha256_hash, value |-> value,
                              properties |-> props, created_at |-> nowISO(t)]
                  IN  Reply(201, rec, MapSet(st, rec.id, rec), TRUE)

(* GET /strings/:value, src/index.js 652-657 *)
GetString(st, req) ==
    LET rec == findByValue(st, req.path[2])
    IN  IF rec = Null THEN send404(st) ELSE Reply(200, rec, st, FALSE)

(* DELETE /strings/:value, src/index.js 660-667 *)
DeleteStringMut(st, req) ==
    LET rec == findByValue(st, req.path[2])
    IN  IF rec = Null THEN Reply(204, [empty |-> TRUE], st, FALSE)
        ELSE Reply(204, [empty |-> TRUE], MapDelete(st, rec.id), TRUE)

DeleteString(st, req) ==
    LET rec == findByValue(st, req.path[2])
    IN  IF rec = Null THEN send404(st)
        ELSE Reply(204, [empty |-> TRUE], MapDelete(st, rec.id), TRUE)

(* GET /, src/index.js 492 *)
Health(st) == Reply(200, [status |-> "ok", records |-> Len(st)], st, FALSE)

---------------------------------------------------------------------------
(* Number(string) and String(x) for query parameters *)

IsDigitAt(s, i) == i >= 1 /\ i <= Len(s) /\ Ch(s, i) \in CharsOf(Digits)

AllDigits(s) == Len(s) > 0 /\ \A i \in 1..Len(s) : IsDigitAt(s, i)

DigitValue(c) == (CHOOSE i \in 1..10 : Ch(Digits, i) = c) - 1

\* the value of the first n digits of s
RECURSIVE DigitsValue(_, _)
DigitsValue(s, n) ==
    IF n = 0 THEN 0
    ELSE 10 * DigitsValue(s, n - 1) + DigitValue(Ch(s, n))

ParseDigits(s) == DigitsValue(s, Len(s))

\* Number(s) for a string: white space is trimmed, the empty string is 0,
\* a decimal integer with an optional sign is its value, and any other text
\* drawn here (letters) is NaN
NumberTrimmed(t) ==
    IF t = "" THEN JsNumber(0)
    ELSE IF AllDigits(t) THEN JsNumber(ParseDigits(t))
    ELSE IF Ch(t, 1) = "-" /\ AllDigits(SubSeq(t, 2, Len(t)))
    THEN JsNumber(0 - ParseDigits(SubSeq(t, 2, Len(t))))
    ELSE IF Ch(t, 1) = "+" /\ AllDigits(SubSeq(t, 2, Len(t)))
    THEN JsNumber(ParseDigits(SubSeq(t, 2, Len(t))))
    ELSE NaN

Number(s) == The({NumberTrimmed(t) : t \in {trim(s)}})

\* !Number.isInteger(n) || n < 0
NotNonNegativeInteger(n) == n = NaN \/ n.n < 0

---------------------------------------------------------------------------
(* GET /strings, src/index.js 527-582 *)

\* lines 531-564: the filters object, key by key
SetIsPalindrome(q, filters) ==
    IF q.is_palindrome # Undefined
    THEN Put(filters, "is_palindrome", toLowerCase(q.is_palindrome.v) = "true")
    ELSE filters

SetNumber(q, key, filters) ==
    IF q[key] # Undefined THEN Put(filters, key, Number(q[key].v).n)
    ELSE filters

SetContainsCharacter(q, filters) ==
    IF q.contains_character # Undefined
    THEN Put(filters, "contains_character", q.contains_character.v)
    ELSE filters

QueryFilters(q) ==
    SetContainsCharacter(q,
        SetNumber(q, "word_count",
            SetNumber(q, "max_length",
                SetNumber(q, "min_length",
                    SetIsPalindrome(q, EmptyObject)))))

\* Array.prototype.filter under `if (filters.key !== undefined)`
ByIsPalindrome(f, results) ==
    IF Has(f, "is_palindrome")
    THEN SelectSeq(results,
                   LAMBDA r : r.properties.is_palindrome = f.is_palindrome)
    ELSE results

ByMinLength(f, results) ==
    IF Has(f, "min_length")
    THEN SelectSeq(results, LAMBDA r : r.properties.length >= f.min_length)
    ELSE results

ByMaxLength(f, results) ==
    IF Has(f, "max_length")
    THEN SelectSeq(results, LAMBDA r : r.properties.length <= f.max_length)
    ELSE results

ByWordCount(f, results) ==
    IF Has(f, "word_count")
    THEN SelectSeq(results, LAMBDA r : r.properties.word_count = f.word_count)
    ELSE results

ByContainsCharacter(f, results) ==
    IF Has(f, "contains_character")
    THEN SelectSeq(results, LAMBDA r : includes(r.value, f.contains_character))
    ELSE results

\* lines 566-568 and 629-631
ConflictingFiltersMut(f) == FALSE

ConflictingFilters(f) ==
    /\ Has(f, "min_length") /\ Has(f, "max_length")
    /\ f.min_length > f.max_length

\* lines 570-581
ListResponse(st, filters, results) ==
    Reply(200,
          [data |-> results, count |-> Len(results),
           filters_applied |-> filters],
          st, FALSE)

ListFiltered(st, filters) ==
    IF ConflictingFilters(filters)
    THEN send422(st, "min_length cannot be greater than max_length")
    ELSE The({ListResponse(st, filters, results) :
                results \in {ByContainsCharacter(filters,
                                ByWordCount(filters,
                                    ByMaxLength(filters,
                                        ByMinLength(filters,
                                            ByIsPalindrome(filters, st)))))}})

InvalidNumber(q, key) ==
    q[key] # Undefined /\ NotNonNegativeInteger(Number(q[key].v))

GetStrings(st, req) ==
    IF /\ req.query.is_palindrome # Undefined
       /\ toLowerCase(req.query.is_palindrome.v) \notin {"true", "false"}
    THEN send400(st, "is_palindrome must be \"true\" or \"false\"")
    ELSE IF InvalidNumber(req.query, "min_length")
    THEN send400(st, "min_length must be a non-negative integer")
    ELSE IF InvalidNumber(req.query, "max_length")
    THEN send400(st, "max_length must be a non-negative integer")
    ELSE IF InvalidNumber(req.query, "word_count")
    THEN send400(st, "word_count must be a non-negative integer")
    ELSE IF /\ req.query.contains_character # Undefined
            /\ Len(req.query.contains_character.v) # 1
    THEN send400(st, "contains_character must be a single character")
    ELSE The({ListFiltered(st, filters) :
                filters \in {QueryFilters(req.query)}})

(* GET /strings of the earlier copy of the service, src/index.js 176-251: *)
(* contains_character may be any non-empty string, and the filters are     *)
(* applied without a comparison of min_length with max_length               *)
ByContainsString(f, results) ==
    IF Has(f, "contains_character")
    THEN SelectSeq(results,
                   LAMBDA r : includesString(r.value, f.contains_character))
    ELSE results

ListFilteredFirst(st, filters) ==
    The({ListResponse(st, filters, results) :
           results \in {ByContainsString(filters,
                           ByWordCount(filters,
                               ByMaxLength(filters,
                                   ByMinLength(filters,
                                       ByIsPalindrome(filters, st)))))}})

GetStringsFirst(st, req) ==
    IF /\ req.query.is_palindrome # Undefined
       /\ toLowerCase(req.query.is_palindrome.v) \notin {"true", "false"}
    THEN send400(st, "is_palindrome must be \"true\" or \"false\"")
    ELSE IF InvalidNumber(req.query, "min_length")
    THEN send400(st, "min_length must be a non-negative integer")
    ELSE IF InvalidNumber(req.query, "max_length")
    THEN send400(st, "max_length must be a non-negative integer")
    ELSE IF InvalidNumber(req.query, "word_count")
    THEN send400(st, "word_count must be a non-negative integer")
    ELSE IF /\ req.query.contains_character # Undefined
            /\ Len(req.query.contains_character.v) = 0
    THEN send400(st, "contains_character must be a non-empty string")
    ELSE The({ListFilteredFirst(st, filters) :
                filters \in {QueryFilters(req.query)}})

---------------------------------------------------------------------------
(* Regular expressions of the interpreter, matched character by character. *)
(* A position i is the gap before character i; a match attempt at i yields *)
(* the position after the match, or 0 when there is none.                  *)

IsWordAt(s, i) ==
    /\ i >= 1 /\ i <= Len(s)
    /\ Ch(s, i) \in CharsOf(LowerCase) \cup CharsOf(UpperCase)
                       \cup CharsOf(Digits) \cup {"_"}

\* \b
Boundary(s, i) == IsWordAt(s, i - 1) # IsWordAt(s, i)

\* a literal: the position after it, or 0
Lit(s, i, w) ==
    IF /\ i >= 1 /\ i + Len(w) - 1 <= Len(s)
       /\ \A k \in 1..Len(w) : Ch(s, i + k - 1) = Ch(w, k)
    THEN i + Len(w) ELSE 0

\* the end of the longest run of characters of `set` from i on
RunEnd(s, i, set) ==
    CHOOSE j \in i..(Len(s) + 1) :
        /\ \A k \in i..(j - 1) : Ch(s, k) \in set
        /\ j = Len(s) + 1 \/ Ch(s, j) \notin set

\* \s+ : the position after it, or 0.  What follows \s+ in every pattern
\* is no white space, so only the longest run can match.
Spaces(s, i) ==
    IF i = 0 THEN 0
    ELSE LET j == RunEnd(s, i, WhiteSpace) IN IF j > i THEN j ELSE 0

\* (\d+) : the position after it, or 0.  What follows (\d+) is \s+ or \b,
\* neither of which can start between two digits.
Number1(s, i) ==
    IF i = 0 THEN 0
    ELSE LET j == RunEnd(s, i, CharsOf(Digits)) IN IF j > i THEN j ELSE 0

AtBoundary(s, i) == IF i # 0 /\ Boundary(s, i) THEN i ELSE 0

Then(i, w, s) == IF i = 0 THEN 0 ELSE Lit(s, i, w)

\* the positions at which a match of s may start
Positions(s) == 1..(Len(s) + 1)

\* RegExp.prototype.test, given the outcome of the attempt at each position
Test(at) == \E i \in DOMAIN at : at[i] # 0

\* String.prototype.match: the captures of the leftmost match, or NoMatch
NoMatch == <<>>

Match(at) ==
    LET hits == {i \in DOMAIN at : at[i] # NoMatch}
    IN  IF hits = {} THEN NoMatch
        ELSE at[CHOOSE i \in hits : \A j \in hits : i <= j]

\* /\b(single|one)[ -]?word\b/
SingleWordAt(s, i) ==
    IF ~Boundary(s, i) THEN 0
    ELSE LET a == IF Lit(s, i, "single") # 0 THEN Lit(s, i, "single")
                  ELSE Lit(s, i, "one")
             sep == IF a # 0 /\ Ch(s, a) \in {" ", "-"} /\ Lit(s, a + 1, "word") # 0
                    THEN a + 1 ELSE a
         IN  AtBoundary(s, Then(sep, "word", s))

Some(set) == IF set = {} THEN 0 ELSE CHOOSE x \in set : TRUE

\* /\bpalindrom(e|ic|ically)?\b/
PalindromeAt(s, i) ==
    IF ~Boundary(s, i) THEN 0
    ELSE LET a == Lit(s, i, "palindrom")
             ends == {AtBoundary(s, Then(a, suf, s)) :
                         suf \in {"e", "ic", "ically", ""}} \ {0}
         IN  Some(ends)

\* /\b<prefix>\s+(\d+)\s+characters\b/ : the captured number
NumberCharactersAt(s, i, prefix) ==
    IF ~Boundary(s, i) THEN NoMatch
    ELSE LET a == Spaces(s, Lit(s, i, prefix))
             b == Number1(s, a)
             c == AtBoundary(s, Then(Spaces(s, b), "characters", s))
         IN  IF c # 0 THEN <<SubSeq(s, a, b - 1)>> ELSE NoMatch

\* /\b<prefix>\s+(\d+)\b/
NumberAt(s, i, prefix) ==
    IF ~Boundary(s, i) THEN NoMatch
    ELSE LET a == Spaces(s, Lit(s, i, prefix))
             b == AtBoundary(s, Number1(s, a))
         IN  IF b # 0 THEN <<SubSeq(s, a, b - 1)>> ELSE NoMatch

\* /\bbetween\s+(\d+)\s+and\s+(\d+)\s+characters\b/ and, with
\* characters = FALSE, /\bbetween\s+(\d+)\s+and\s+(\d+)\b/
BetweenAt(s, i, characters) ==
    IF ~Boundary(s, i) THEN NoMatch
    ELSE LET a == Spaces(s, Lit(s, i, "between"))
             b == Number1(s, a)
             c == Spaces(s, Then(Spaces(s, b), "and", s))
             d == Number1(s, c)
             e == IF characters
                  THEN AtBoundary(s, Then(Spaces(s, d), "characters", s))
                  ELSE AtBoundary(s, d)
         IN  IF e # 0 THEN <<SubSeq(s, a, b - 1), SubSeq(s, c, d - 1)>>
             ELSE NoMatch

\* ([a-z0-9])\b at a : the captured character
OneCharAt(s, a) ==
    IF /\ a # 0 /\ a <= Len(s)
       /\ Ch(s, a) \in CharsOf(LowerCase) \cup CharsOf(Digits)
       /\ Boundary(s, a + 1)
    THEN <<Ch(s, a)>> ELSE NoMatch

\* \bcontains? : the positions after "contain" and after "contains"
ContainsAt(s, i) ==
    IF ~Boundary(s, i) THEN {}
    ELSE {Lit(s, i, "contains"), Lit(s, i, "contain")} \ {0}

First(set) == IF set = {} THEN NoMatch ELSE CHOOSE x \in set : TRUE

\* /\bcontains?\s+(?:the\s+)?letter\s+([a-z0-9])\b/
ContainsLetterAt(s, i) ==
    First({OneCharAt(s, Spaces(s, Then(b, "letter", s))) :
             b \in UNION {{Spaces(s, a),
                           Spaces(s, Then(Spaces(s, a), "the", s))} :
                            a \in ContainsAt(s, i)}} \ {NoMatch})

\* /\bcontaining\s+([a-z0-9])\b/
ContainingAt(s, i) ==
    IF ~Boundary(s, i) THEN NoMatch
    ELSE OneCharAt(s, Spaces(s, Lit(s, i, "containing")))

\* /\bcontains?\s+([a-z0-9])\b/
ContainsCharAt(s, i) ==
    First({OneCharAt(s, Spaces(s, a)) : a \in ContainsAt(s, i)} \ {NoMatch})

\* /\bcontains?\s+(?:the\s+)?first\s+vowel\b/
FirstVowelAt(s, i) ==
    Some({AtBoundary(s, Then(Spaces(s, Then(b, "first", s)), "vowel", s)) :
             b \in UNION {{Spaces(s, a),
                           Spaces(s, Then(Spaces(s, a), "the", s))} :
                            a \in ContainsAt(s, i)}} \ {0})

---------------------------------------------------------------------------
(* GET /strings/filter-by-natural-language, src/index.js 586-649 *)

\* (m = a) || (m = b)
Or(a, b) == IF a # NoMatch THEN a ELSE b

\* lines 593-594
SingleWordRule(lower, parsed) ==
    IF Test([i \in Positions(lower) |-> SingleWordAt(lower, i)])
    THEN Put(parsed, "word_count", 1) ELSE parsed

\* lines 596-597
PalindromeRule(lower, parsed) ==
    IF Test([i \in Positions(lower) |-> PalindromeAt(lower, i)])
    THEN Put(parsed, "is_palindrome", TRUE) ELSE parsed

SetMinLengthMut(parsed, m) ==
    IF m # NoMatch THEN Put(parsed, "min_length", ParseDigits(m[1]))
    ELSE parsed

SetMinLength(parsed, m) ==
    IF m # NoMatch THEN Put(parsed, "min_length", ParseDigits(m[1]) + 1)
    ELSE parsed

\* lines 599-603
LongerThanRule(lower, parsed) ==
    SetMinLength(parsed,
        Or(Match([i \in Positions(lower) |-> NumberCharactersAt(lower, i, "longer than")]),
           Match([i \in Positions(lower) |-> NumberAt(lower, i, "longer than")])))

\* lines 604-607
StringsLongerThanRule(lower, parsed) ==
    SetMinLength(parsed,
        Match([i \in Positions(lower) |-> NumberAt(lower, i, "strings longer than")]))

SetBetween(parsed, m) ==
    IF m # NoMatch
    THEN Put(Put(parsed, "min_length", ParseDigits(m[1])),
             "max_length", ParseDigits(m[2]))
    ELSE parsed

\* lines 609-613
BetweenRule(lower, parsed) ==
    SetBetween(parsed,
        Or(Match([i \in Positions(lower) |-> BetweenAt(lower, i, TRUE)]),
           Match([i \in Positions(lower) |-> BetweenAt(lower, i, FALSE)])))

SetContains(parsed, m) ==
    IF m # NoMatch THEN Put(parsed, "contains_character", m[1]) ELSE parsed

\* lines 615-620
ContainsRule(lower, parsed) ==
    SetContains(parsed,
        Or(Match([i \in Positions(lower) |-> ContainsLetterAt(lower, i)]),
           Or(Match([i \in Positions(lower) |-> ContainingAt(lower, i)]),
              Match([i \in Positions(lower) |-> ContainsCharAt(lower, i)]))))

\* lines 622-623
FirstVowelRule(lower, parsed) ==
    IF Test([i \in Positions(lower) |-> FirstVowelAt(lower, i)])
    THEN Put(parsed, "contains_character", "a") ELSE parsed

\* the rules of lines 590-623, in their order, over the lower-cased query
ParseLowerMut(lower) ==
    FirstVowelRule(lower,
        ContainsRule(lower,
            StringsLongerThanRule(lower,
                LongerThanRule(lower,
                    BetweenRule(lower,
                        PalindromeRule(lower,
                            SingleWordRule(lower, EmptyObject)))))))

ParseLower(lower) ==
    FirstVowelRule(lower,
        ContainsRule(lower,
            BetweenRule(lower,
                StringsLongerThanRule(lower,
                    LongerThanRule(lower,
                        PalindromeRule(lower,
                            SingleWordRule(lower, EmptyObject)))))))

\* line 590: const lower = query.toLowerCase()
ParseQuery(query) == The({ParseLower(lower) : lower \in {toLowerCase(query)}})

\* the query texts drawn, and their interpretation computed once
QueryTexts ==
    {"all single word palindromic strings",
     "purple monkey dishwasher",
     "all strings",
     "between 10 and 5 characters",
     "between 7 and 2",
     "strings longer than 5 characters",
     "longer than 5 characters",
     "strings longer than 5",
     "longer than 5",
     "Strings Longer Than 1",
     "longer than  2  characters",
     "longer than 5x",
     "strings longer than 1 and longer than 4 characters",
     "longer than 3 and between 5 and 10",
     "between 5 and 10 and longer than 3",
     "between 1 and 3",
     "between 2 and 2 characters",
     "single word strings longer than 1",
     "one-word",
     "singlewordy",
     "palindromes",
     "non-palindromic strings",
     "strings that are not palindrome",
     "shorter than 5 characters",
     "shorter than 3",
     "exactly 2 characters",
     "two words",
     "two word strings",
     "contains the letter z and contains the first vowel",
     "contains the first vowel and contains the letter z",
     "strings containing the letter z",
     "strings containing z",
     "strings that contain the letter a",
     "contains the letter ab",
     "one word containing a",
     "palindromic strings that contain the first vowel",
     "containing the first vowel"}

ParsedFilters == [q \in QueryTexts |-> ParseQuery(q)]

Interpret(query) ==
    IF query \in QueryTexts THEN ParsedFilters[query] ELSE ParseQuery(query)

\* lines 633-648
AskResponse(st, query, parsed, results) ==
    Reply(200,
          [data |-> results, count |-> Len(results),
           interpreted_query |->
               [original |-> query, parsed_filters |-> parsed]],
          st, FALSE)

AskParsedMut(st, query, parsed) ==
    IF ConflictingFilters(parsed)
    THEN send422(st, "Query parsed but resulted in conflicting filters")
    ELSE The({AskResponse(st, query, parsed, results) :
                results \in {ByContainsCharacter(parsed,
                                ByMaxLength(parsed,
                                    ByMinLength(parsed,
                                        ByWordCount(parsed,
                                            ByIsPalindrome(parsed, st)))))}})

AskParsed(st, query, parsed) ==
    IF DOMAIN parsed = {}
    THEN send400(st, "Unable to parse natural language query")
    ELSE IF ConflictingFilters(parsed)
    THEN send422(st, "Query parsed but resulted in conflicting filters")
    ELSE The({AskResponse(st, query, parsed, results) :
                results \in {ByContainsCharacter(parsed,
                                ByMaxLength(parsed,
                                    ByMinLength(parsed,
                                        ByWordCount(parsed,
                                            ByIsPalindrome(parsed, st)))))}})

FilterByNaturalLanguage(st, req) ==
    IF req.query.query = Undefined \/ req.query.query = JsString("")
    THEN send400(st, "Missing \"query\" parameter")
    ELSE The({AskParsed(st, req.query.query.v, parsed) :
                parsed \in {Interpret(req.query.query.v)}})

---------------------------------------------------------------------------
(* Routing: Express tries the routes in the order of their registration,   *)
(* src/index.js 492, 495, 527, 586, 652, 660                                *)

\* A path is the sequence of its segments: /strings/ab is <<"strings", "ab">>
\* and /strings/ is <<"strings", "">>.  Routing is not strict, so /strings/
\* is matched by the routes of /strings; :value matches one segment that is
\* not empty.
IsStringsPath(path) == path = <<"strings">> \/ path = <<"strings", "">>

IsValuePath(path) == Len(path) = 2 /\ path[1] = "strings" /\ path[2] # ""

Handle(st, req, t) ==
    IF req.method = "GET" /\ req.path = <<>> THEN Health(st)
    ELSE IF req.method = "POST" /\ IsStringsPath(req.path)
    THEN PostStrings(st, req, t)
    ELSE IF req.method = "GET" /\ IsStringsPath(req.path)
    THEN GetStrings(st, req)
    ELSE IF req.method = "GET"
            /\ req.path = <<"strings", "filter-by-natural-language">>
    THEN FilterByNaturalLanguage(st, req)
    ELSE IF req.method = "GET" /\ IsValuePath(req.path)
    THEN GetString(st, req)
    ELSE IF req.method = "DELETE" /\ IsValuePath(req.path)
    THEN DeleteString(st, req)
    ELSE Reply(404, [error |-> "Cannot " \o req.method], st, FALSE)

---------------------------------------------------------------------------
(* The requests drawn *)

Values == {"Aa", "ab", "a b"}

PostOf(x) == Request("POST", <<"strings">>, TRUE, ValueBody(x), NoQuery)
GetOf(v) == Request("GET", <<"strings", v>>, FALSE, NoBody, NoQuery)
DeleteOf(v) == Request("DELETE", <<"strings", v>>, FALSE, NoBody, NoQuery)
ListOf(q) == Request("GET", <<"strings">>, FALSE, NoBody, q)
AskOf(x) ==
    Request("GET", <<"strings", "filter-by-natural-language">>, FALSE, NoBody,
            [NoQuery EXCEPT !.query = x])

PostRequests ==
    {PostOf(JsString(v)) : v \in Values}
        \cup {PostOf(JsNumber(42)),
              Request("POST", <<"strings">>, TRUE, NoBody, NoQuery),
              Request("POST", <<"strings">>, FALSE, NoBody, NoQuery)}

GetRequests == {GetOf(v) : v \in Values}

DeleteRequests == {DeleteOf(v) : v \in Values}

ListRequests ==
    {ListOf(NoQuery),
     ListOf([NoQuery EXCEPT !.is_palindrome = JsString("true")]),
     ListOf([NoQuery EXCEPT !.min_length = JsString("3"),
                            !.max_length = JsString("2")])}

AskRequests ==
    {AskOf(JsString("all single word palindromic strings")),
     AskOf(JsString("purple monkey dishwasher")),
     AskOf(JsString("between 10 and 5 characters"))}

HealthRequest == Request("GET", <<>>, FALSE, NoBody, NoQuery)

---------------------------------------------------------------------------
(* The server *)

Init ==
    /\ store = <<>>
    /\ disk = Missing
    /\ now = 0
    /\ pending = [c \in Clients |-> NoReq]
    /\ resp = NoResp
    /\ raced = [c \in Clients |-> {}]
    /\ peers = {}

\* one handler run: the handler's effect on the Map, the snapshot when the
\* handler persists, and the response.  `racers` are the clients whose
\* identical request was in flight together with this one.
ServeMut(req, racers) ==
    \E out \in {Handle(store, req, now)} :
        /\ disk' \in IF out.persist THEN persistData(out.store, disk) ELSE {disk}
        /\ store' = IF out.persist /\ disk' # Stringify(out.store)
                    THEN store ELSE out.store
        /\ resp' = [req |-> req, status |-> out.status, body |-> out.body]
        /\ peers' = racers
        /\ UNCHANGED now

Serve(req, racers) ==
    \E out \in {Handle(store, req, now)} :
        /\ store' = out.store
        /\ disk' \in IF out.persist THEN persistData(out.store, disk)
                     ELSE {disk}
        /\ resp' = [req |-> req, status |-> out.status, body |-> out.body]
        /\ peers' = racers
        /\ UNCHANGED now

\* a request arrives and is handled before any other arrives
CreateString ==
    \E req \in PostRequests : Serve(req, {}) /\ UNCHANGED <<pending, raced>>

FetchString ==
    \E req \in GetRequests : Serve(req, {}) /\ UNCHANGED <<pending, raced>>

ListStrings ==
    \E req \in ListRequests : Serve(req, {}) /\ UNCHANGED <<pending, raced>>

AskStrings ==
    \E req \in AskRequests : Serve(req, {}) /\ UNCHANGED <<pending, raced>>

RemoveString ==
    \E req \in DeleteRequests : Serve(req, {}) /\ UNCHANGED <<pending, raced>>

CheckHealth == Serve(HealthRequest, {}) /\ UNCHANGED <<pending, raced>>

\* time passes
Tick ==
    /\ now < MaxNow
    /\ now' = now + 1
    /\ UNCHANGED <<store, disk, pending, resp, raced, peers>>

\* the process is restarted: a new empty Map, loadData (line 670), every
\* connection dropped
Restart ==
    /\ store' = loadData(disk)
    /\ pending' = [c \in Clients |-> NoReq]
    /\ resp' = NoResp
    /\ raced' = [c \in Clients |-> {}]
    /\ peers' = {}
    /\ UNCHANGED <<disk, now>>

Next ==
    \/ CreateString
    \/ FetchString
    \/ ListStrings
    \/ AskStrings
    \/ RemoveString
    \/ CheckHealth
    \/ Tick
    \/ Restart

Spec == Init /\ [][Next]_vars

---------------------------------------------------------------------------
(* Concurrent clients: requests of several connections are in flight at   *)
(* once; the event loop runs one handler at a time, in any order.         *)

RacingValues == {"Aa", "ab"}

\* a client sends a request; it is in flight until its handler has run
Send(c, req) ==
    /\ pending[c] = NoReq
    /\ pending' = [pending EXCEPT ![c] = req]
    /\ raced' = [d \in Clients |->
                    IF d = c THEN {e \in Clients \ {c} : pending[e] = req}
                    ELSE IF pending[d] = req THEN raced[d] \cup {c}
                    ELSE raced[d]]
    /\ UNCHANGED <<store, disk, now, resp, peers>>

SendCreate ==
    \E c \in Clients, v \in RacingValues : Send(c, PostOf(JsString(v)))

SendDelete == \E c \in Clients, v \in RacingValues : Send(c, DeleteOf(v))

\* the event loop runs the handler of one request in flight
Deliver(c) ==
    /\ pending[c] # NoReq
    /\ Serve(pending[c], raced[c])
    /\ pending' = [pending EXCEPT ![c] = NoReq]
    /\ raced' = [raced EXCEPT ![c] = {}]

DeliverOne == \E c \in Clients : Deliver(c)

NextRacing ==
    \/ SendCreate
    \/ SendDelete
    \/ DeliverOne
    \/ Tick

SpecRacing == Init /\ [][NextRacing]_vars

---------------------------------------------------------------------------
(* Queries against a store that stays as it is: the list and the         *)
(* natural-language routes over a wide range of parameters.                *)

\* the Map after creating vals[1..n] in this order
RECURSIVE Created(_, _)
Created(vals, n) ==
    IF n = 0 THEN <<>>
    ELSE The({PostStrings(st, PostOf(JsString(vals[n])), 0).store :
                st \in {Created(vals, n - 1)}})

SeedValues ==
    {<<>>,
     <<"hi", "hello!">>,
     <<"Aa", "ab", "a b">>,
     <<"a b", "Madam", "z", "ab", "aba">>,
     <<"A man", "a", "Aa", "">>}

Param(strings) == {Undefined} \cup {JsString(x) : x \in strings}

WideListRequests ==
    {ListOf([is_palindrome |-> p, min_length |-> mn, max_length |-> mx,
             word_count |-> wc, contains_character |-> cc,
             query |-> Undefined]) :
        p \in Param({"true", "FALSE", "yes"}),
        mn \in Param({"0", "3", "x", "-1"}),
        mx \in Param({"2", "5", ""}), wc \in Param({"1", "2"}),
        cc \in Param({"a", "A", "z", "ab"})}

WideAskRequests ==
    {AskOf(x) : x \in {Undefined, JsString("")}}
        \cup {AskOf(JsString(q)) : q \in QueryTexts}

\* creates of strings, the empty one among them, of values that are no
\* strings, and of bodies without a value
WideCreateRequests ==
    {PostOf(x) : x \in {JsString(v) : v \in {"", "hi", "Aa", "z", "a b"}}
                          \cup {JsNumber(0), JsNumber(42), Null}}
        \cup {Request("POST", <<"strings">>, TRUE, NoBody, NoQuery)}

\* a request is in flight against a store that earlier creates have filled
InitQuery ==
    /\ store \in {Created(vals, Len(vals)) : vals \in SeedValues}
    /\ disk = Stringify(store)
    /\ now = 0
    /\ \E c \in Clients,
          req \in WideListRequests \cup WideAskRequests \cup WideCreateRequests :
          pending = [d \in Clients |-> IF d = c THEN req ELSE NoReq]
    /\ resp = NoResp
    /\ raced = [c \in Clients |-> {}]
    /\ peers = {}

SpecQuery == InitQuery /\ [][DeliverOne]_vars

---------------------------------------------------------------------------
(* The list route of the earlier copy of the service, over the same wide   *)
(* range of parameters and the same stores                                  *)

InitFirst ==
    /\ store \in {Created(vals, Len(vals)) : vals \in SeedValues}
    /\ disk = Stringify(store)
    /\ now = 0
    /\ \E c \in Clients, req \in WideListRequests :
          pending = [d \in Clients |-> IF d = c THEN req ELSE NoReq]
    /\ resp = NoResp
    /\ raced = [c \in Clients |-> {}]
    /\ peers = {}

DeliverFirst(c) ==
    /\ pending[c] # NoReq
    /\ \E out \in {GetStringsFirst(store, pending[c])} :
          /\ store' = out.store
          /\ resp' = [req |-> pending[c], status |-> out.status,
                      body |-> out.body]
    /\ pending' = [pending EXCEPT ![c] = NoReq]
    /\ raced' = [raced EXCEPT ![c] = {}]
    /\ peers' = raced[c]
    /\ UNCHANGED <<disk, now>>

SpecFirst == InitFirst /\ [][\E c \in Clients : DeliverFirst(c)]_vars

---------------------------------------------------------------------------
(* Creates, fetches and deletes of values that are also paths of other     *)
(* routes: the empty string and the name of the natural-language route     *)

PathValues == {"", "filter-by-natural-language", "hi"}

CreateByPath ==
    \E v \in PathValues :
        Serve(PostOf(JsString(v)), {}) /\ UNCHANGED <<pending, raced>>

FetchByPath ==
    \E v \in PathValues : Serve(GetOf(v), {}) /\ UNCHANGED <<pending, raced>>

RemoveByPath ==
    \E v \in PathValues : Serve(DeleteOf(v), {}) /\ UNCHANGED <<pending, raced>>

NextPaths ==
    \/ CreateByPath
    \/ FetchByPath
    \/ RemoveByPath

SpecPaths == Init /\ [][NextPaths]_vars

---------------------------------------------------------------------------
(* Properties *)

Stored(st, v) == \E i \in 1..Len(st) : st[i].value = v

CountValue(st, v) == Cardinality({i \in 1..Len(st) : st[i].value = v})

CreateOf(v) == PostOf(JsString(v))

\* C1: in every reachable state of the server (creates, deletes, reloads of
\* its own snapshot) no two stored records have the same value.
C1_NoDuplicateValues ==
    \A i, j \in 1..Len(store) : i # j => store[i].value # store[j].value

\* several records are stored and persisted, and a duplicate create was tried
C1_Witness ==
    /\ Len(store) >= 2
    /\ disk = Stringify(store)
    /\ resp.status = 409

\* C2: a create of a value that is not stored answers 201 and adds exactly
\* one record; a create of the same value right after it (and any create of
\* a stored value) answers 409 and leaves the Map and the snapshot as they
\* were, created_at included.
C2_SecondCreateConflicts ==
    [][\A v \in Values :
         (resp'.req = CreateOf(v) /\ Serve(CreateOf(v), {})) =>
            /\ ~Stored(store, v) =>
                  /\ resp'.status = 201
                  /\ Len(store') = Len(store) + 1
                  /\ SubSeq(store', 1, Len(store)) = store
                  /\ CountValue(store', v) = 1
            /\ Stored(store, v) =>
                  /\ resp'.status = 409
                  /\ store' = store
                  /\ disk' = disk
            /\ (resp.status = 201 /\ resp.req = CreateOf(v)) =>
                  /\ resp'.status = 409
                  /\ store' = store]_vars

\* the second create was refused, the record of the first one is still there
\* with the created_at of an earlier instant
C2_Witness ==
    /\ resp.status = 409
    /\ \E i \in 1..Len(store) :
          /\ resp.req = CreateOf(store[i].value)
          /\ store[i].created_at # nowISO(now)

C4_OneOfTwoCreatesWins ==
    [][\A c \in Clients, v \in RacingValues :
         (Deliver(c) /\ pending[c] = CreateOf(v)) =>
            /\ ((\E d \in raced[c] : pending[d] = pending[c])
                    /\ ~Stored(store, v)) =>
                  /\ resp'.status = 201
                  /\ CountValue(store', v) = 1
            /\ (c \in peers /\ resp.req = pending[c] /\ resp.status = 201) =>
                  /\ resp'.status = 409
                  /\ store' = store
                  /\ CountValue(store', v) = 1]_vars

\* the loser of a race has been answered: conflict, one record, nothing left
\* in flight
C4_Witness ==
    /\ resp.status = 409
    /\ peers # {}
    /\ \A c \in Clients : pending[c] = NoReq
    /\ \E v \in RacingValues :
          resp.req = CreateOf(v) /\ CountValue(store, v) = 1

---------------------------------------------------------------------------
(* Properties of the two query routes, read off the last response *)

IsList(r) == r.method = "GET" /\ r.path = <<"strings">>

IsAsk(r) ==
    r.method = "GET" /\ r.path = <<"strings", "filter-by-natural-language">>

\* the last request asked one of the query texts
Asked(q) == IsAsk(resp.req) /\ resp.req.query.query = JsString(q)

AskedKnown == IsAsk(resp.req) /\ \E q \in QueryTexts : Asked(q)

AskedText == resp.req.query.query.v

FiltersOf(rs) ==
    IF IsList(rs.req) THEN rs.body.filters_applied
    ELSE rs.body.interpreted_query.parsed_filters

\* c occurs in s, character for character
Occurs(s, c) ==
    \E i \in 1..(Len(s) - Len(c) + 1) : SubSeq(s, i, i + Len(c) - 1) = c

\* a record satisfies every predicate that is present in f
Satisfies(f, r) ==
    /\ Has(f, "is_palindrome") => r.properties.is_palindrome = f.is_palindrome
    /\ Has(f, "min_length") => r.properties.length >= f.min_length
    /\ Has(f, "max_length") => r.properties.length <= f.max_length
    /\ Has(f, "word_count") => r.properties.word_count = f.word_count
    /\ Has(f, "contains_character") => Occurs(r.value, f.contains_character)

\* C5: whenever a list or a natural-language request is answered 200, its
\* data is the subsequence of the store's enumeration, in that order, of
\* exactly the records satisfying every present predicate (contains_character
\* case-sensitively); with no filter key it is the whole store; count is the
\* number of records returned; a contains_character no value has gives an
\* empty result with count 0, not an error.
C5_ResultIsStableFilter ==
    /\ (resp.status = 200 /\ (IsList(resp.req) \/ IsAsk(resp.req))) =>
          \A f \in {FiltersOf(resp)} :
             /\ resp.body.data = SelectSeq(store, LAMBDA r : Satisfies(f, r))
             /\ resp.body.count = Len(resp.body.data)
             /\ DOMAIN f = {} => resp.body.data = store
    /\ (/\ IsList(resp.req)
        /\ resp.req.query = [NoQuery EXCEPT !.contains_character = JsString("z")]
        /\ \A i \in 1..Len(store) : ~Occurs(store[i].value, "z")) =>
          /\ resp.status = 200
          /\ resp.body.data = <<>>
          /\ resp.body.count = 0

\* a list answer under two filters, one of them contains_character, that
\* keeps the first record, drops the second and keeps a later one
C5_Witness ==
    /\ resp.status = 200
    /\ IsList(resp.req)
    /\ Has(resp.body.filters_applied, "contains_character")
    /\ Has(resp.body.filters_applied, "min_length")
    /\ Len(store) >= 3
    /\ resp.body.count >= 2
    /\ resp.body.data[1] = store[1]
    /\ resp.body.data[2] # store[2]

\* C6: a natural-language query whose interpretation has min_length greater
\* than max_length is answered 422 (not 400) with no data; "between 10 and 5
\* characters" is interpreted as min_length 10, max_length 5, unswapped.
C6_ConflictIsUnprocessable ==
    AskedKnown =>
        \A p \in {ParsedFilters[AskedText]} :
           /\ (/\ Has(p, "min_length") /\ Has(p, "max_length")
               /\ p.min_length > p.max_length) =>
                 /\ resp.status = 422
                 /\ resp.status # 400
                 /\ DOMAIN resp.body = {"error"}
           /\ Asked("between 10 and 5 characters") =>
                 /\ p.min_length = 10
                 /\ p.max_length = 5
                 /\ resp.status = 422

\* "between 10 and 5 characters" was refused although the store has a record
\* whose length lies between 5 and 10
C6_Witness ==
    /\ Asked("between 10 and 5 characters")
    /\ resp.status = 422
    /\ \E i \in 1..Len(store) :
          store[i].properties.length >= 5 /\ store[i].properties.length <= 10

\* the key words of the phrases of the rule catalog
CatalogWords ==
    {"palindrom", "single", "one", "two word", "longer than", "shorter than",
     "exactly", "between", "contain"}

\* the query texts in which no phrase of the catalog occurs
PhraseFree ==
    {q \in QueryTexts :
        \A lower \in {toLowerCase(q)} :
            \A w \in CatalogWords : ~Occurs(lower, w)}

Write(key, value) == <<[key |-> key, value |-> value]>>

\* what the rules that match write, rule by rule in evaluation order
RuleWrites(lower) ==
    (IF Test([i \in Positions(lower) |-> SingleWordAt(lower, i)])
     THEN Write("word_count", 1) ELSE <<>>)
    \o (IF Test([i \in Positions(lower) |-> PalindromeAt(lower, i)])
        THEN Write("is_palindrome", TRUE) ELSE <<>>)
    \o (IF Match([i \in Positions(lower) |-> NumberCharactersAt(lower, i, "longer than")])
             # NoMatch
        THEN Write("min_length",
                   ParseDigits(Match([i \in Positions(lower) |-> NumberCharactersAt(lower, i, "longer than")])[1]) + 1)
        ELSE IF Match([i \in Positions(lower) |-> NumberAt(lower, i, "longer than")])
                   # NoMatch
        THEN Write("min_length",
                   ParseDigits(Match([i \in Positions(lower) |-> NumberAt(lower, i, "longer than")])[1]) + 1)
        ELSE <<>>)
    \o (IF Match([i \in Positions(lower) |-> NumberAt(lower, i, "strings longer than")])
             # NoMatch
        THEN Write("min_length",
                   ParseDigits(Match([i \in Positions(lower) |-> NumberAt(lower, i, "strings longer than")])[1]) + 1)
        ELSE <<>>)
    \o (IF \E ch \in BOOLEAN :
              Match([i \in Positions(lower) |-> BetweenAt(lower, i, ch)]) # NoMatch
        THEN \* both keys of the one rule
             Write("min_length",
                   ParseDigits(Or(Match([i \in Positions(lower) |-> BetweenAt(lower, i, TRUE)]),
                                  Match([i \in Positions(lower) |-> BetweenAt(lower, i, FALSE)]))[1]))
             \o Write("max_length",
                   ParseDigits(Or(Match([i \in Positions(lower) |-> BetweenAt(lower, i, TRUE)]),
                                  Match([i \in Positions(lower) |-> BetweenAt(lower, i, FALSE)]))[2]))
        ELSE <<>>)
    \o (IF Or(Match([i \in Positions(lower) |-> ContainsLetterAt(lower, i)]),
              Or(Match([i \in Positions(lower) |-> ContainingAt(lower, i)]),
                 Match([i \in Positions(lower) |-> ContainsCharAt(lower, i)]))) # NoMatch
        THEN Write("contains_character",
                   Or(Match([i \in Positions(lower) |-> ContainsLetterAt(lower, i)]),
                      Or(Match([i \in Positions(lower) |-> ContainingAt(lower, i)]),
                         Match([i \in Positions(lower) |-> ContainsCharAt(lower, i)])))[1])
        ELSE <<>>)
    \o (IF Test([i \in Positions(lower) |-> FirstVowelAt(lower, i)])
        THEN Write("contains_character", "a") ELSE <<>>)

WritesOf == [q \in QueryTexts |-> RuleWrites(toLowerCase(q))]

IsUnparsed(rs) ==
    /\ rs.status = 400
    /\ rs.body = [error |-> "Unable to parse natural language query"]

\* C7: a query in which no phrase of the catalog occurs, "purple monkey
\* dishwasher" among them, is answered 400 Unparsed; and a query is answered
\* Unparsed exactly when no rule matched it, that is when its parsed filter
\* set is empty.
C7_UnparsedIffNoRuleMatched ==
    AskedKnown =>
        /\ AskedText \in PhraseFree => IsUnparsed(resp)
        /\ Asked("purple monkey dishwasher") => IsUnparsed(resp)
        /\ IsUnparsed(resp) <=> Len(WritesOf[AskedText]) = 0
        /\ IsUnparsed(resp) <=> DOMAIN ParsedFilters[AskedText] = {}

\* "purple monkey dishwasher" was refused as Unparsed by a store with records
C7_Witness ==
    /\ Asked("purple monkey dishwasher")
    /\ IsUnparsed(resp)
    /\ store # <<>>

\* C8: the parsed filter set echoed by a 200 answer depends on the query
\* text alone; its keys are exactly the keys written by the rules that match;
\* each key has the value written by the last matching rule in evaluation
\* order.  "all single word palindromic strings" gives exactly word_count 1
\* and is_palindrome true; "longer than 3" together with "between 5 and 10"
\* gives min_length 5; "contains the letter z" together with "contains the
\* first vowel" gives contains_character "a".
C8_RulesComposeLastWriteWins ==
    (AskedKnown /\ resp.status = 200) =>
        \A p \in {resp.body.interpreted_query.parsed_filters},
           w \in {WritesOf[AskedText]} :
           /\ p = ParsedFilters[AskedText]
           /\ DOMAIN p = {w[i].key : i \in 1..Len(w)}
           /\ \A i \in 1..Len(w) :
                 (\A j \in (i + 1)..Len(w) : w[j].key # w[i].key)
                     => p[w[i].key] = w[i].value
           /\ Asked("all single word palindromic strings") =>
                 /\ DOMAIN p = {"word_count", "is_palindrome"}
                 /\ p.word_count = 1
                 /\ p.is_palindrome = TRUE
           /\ (\/ Asked("longer than 3 and between 5 and 10")
               \/ Asked("between 5 and 10 and longer than 3")) =>
                 p.min_length = 5
           /\ (\/ Asked("contains the letter z and contains the first vowel")
               \/ Asked("contains the first vowel and contains the letter z")) =>
                 p.contains_character = "a"

\* two rules wrote min_length and the later one's value selected the records
C8_Witness ==
    /\ Asked("longer than 3 and between 5 and 10")
    /\ resp.status = 200
    /\ resp.body.interpreted_query.parsed_filters.min_length = 5
    /\ resp.body.count >= 1
    /\ resp.body.count < Len(store)

\* C9: a query containing "non-palindromic" or "not palindrome" is answered
\* 200 with is_palindrome false in its parsed filters, and every record of
\* its data is not a palindrome.
C9_NegatedPalindromeIsFalse ==
    (Asked("non-palindromic strings")
        \/ Asked("strings that are not palindrome")) =>
        /\ resp.status = 200
        /\ resp.body.interpreted_query.parsed_filters.is_palindrome = FALSE
        /\ \A i \in 1..Len(resp.body.data) :
              ~resp.body.data[i].properties.is_palindrome

\* C10: "shorter than N [characters]" is answered 200 with max_length N - 1,
\* "exactly N characters" with min_length and max_length N, "two word(s)"
\* with word_count 2; none of them is Unparsed.
C10_ShorterExactlyTwoWords ==
    /\ Asked("shorter than 5 characters") =>
          /\ resp.status = 200
          /\ resp.body.interpreted_query.parsed_filters.max_length = 4
    /\ Asked("shorter than 3") =>
          /\ resp.status = 200
          /\ resp.body.interpreted_query.parsed_filters.max_length = 2
    /\ Asked("exactly 2 characters") =>
          /\ resp.status = 200
          /\ resp.body.interpreted_query.parsed_filters.min_length = 2
          /\ resp.body.interpreted_query.parsed_filters.max_length = 2
    /\ (Asked("two words") \/ Asked("two word strings")) =>
          /\ resp.status = 200
          /\ resp.body.interpreted_query.parsed_filters.word_count = 2

\* the numbers N of the occurrences of "longer than N" in a lower-cased text
LongerThanOf ==
    [q \in QueryTexts |->
        {ParseDigits(m[1]) :
            m \in {NumberAt(toLowerCase(q), i, "longer than") :
                      i \in Positions(toLowerCase(q))} \ {NoMatch}}]

\* C11: a query with "longer than N", with or without "characters" and with
\* or without "strings" before it (and no "between" phrase overwriting it),
\* is answered 200 with min_length = N + 1; no record of length N or less is
\* returned and every record of length N + 1 or more that satisfies the other
\* parsed filters is.  Against the store of "hi" and "hello!", "strings
\* longer than 5 characters" parses to exactly min_length 6 and returns only
\* "hello!".
C11_LongerThanIsStrict ==
    (/\ AskedKnown /\ LongerThanOf[AskedText] # {}
     /\ \A i \in 1..Len(WritesOf[AskedText]) :
           WritesOf[AskedText][i].key # "max_length") =>
        /\ resp.status = 200
        /\ \A p \in {resp.body.interpreted_query.parsed_filters} :
              /\ Has(p, "min_length")
              /\ p.min_length \in {n + 1 : n \in LongerThanOf[AskedText]}
              /\ \A i \in 1..Len(resp.body.data) :
                    resp.body.data[i].properties.length > p.min_length - 1
              /\ \A i \in 1..Len(store) :
                    (/\ store[i].properties.length >= p.min_length
                     /\ Satisfies([k \in DOMAIN p \ {"min_length"} |-> p[k]],
                                  store[i]))
                        => \E j \in 1..Len(resp.body.data) :
                              resp.body.data[j] = store[i]
              /\ (Asked("strings longer than 5 characters")
                     \/ Asked("longer than 5 characters")
                     \/ Asked("strings longer than 5")
                     \/ Asked("longer than 5")) =>
                    /\ DOMAIN p = {"min_length"}
                    /\ p.min_length = 6
                    /\ store = Created(<<"hi", "hello!">>, 2) =>
                          /\ Len(resp.body.data) = 1
                          /\ resp.body.data[1].value = "hello!"

\* "strings longer than 5 characters" asked of the store of "hi" and
\* "hello!" returned one record
C11_Witness ==
    /\ Asked("strings longer than 5 characters")
    /\ store = Created(<<"hi", "hello!">>, 2)
    /\ resp.status = 200
    /\ resp.body.count = 1

---------------------------------------------------------------------------
(* Properties of the store under creates, deletes and reads *)

\* C12: when the snapshot write of a create fails, the create is still
\* answered 201 with its record and the record is in the Map; when the write
\* of a delete fails, the delete is still answered 204 and the record is gone
\* from the Map; and while the file does not hold the Map, fetches are served
\* from the Map: 200 with the stored record, or 404.
C12_WriteFailureKeepsMutation ==
    [][\A v \in Values :
         /\ (/\ resp'.req = CreateOf(v) /\ Serve(CreateOf(v), {})
             /\ ~Stored(store, v) /\ disk' # Stringify(store')) =>
               /\ resp'.status = 201
               /\ Len(store') = Len(store) + 1
               /\ store'[Len(store')] = resp'.body
               /\ resp'.body.value = v
         /\ (/\ resp'.req = DeleteOf(v) /\ Serve(DeleteOf(v), {})
             /\ Stored(store, v) /\ disk' # Stringify(store')) =>
               /\ resp'.status = 204
               /\ ~Stored(store', v)
               /\ Len(store') = Len(store) - 1
         /\ (/\ resp'.req = GetOf(v) /\ Serve(GetOf(v), {})
             /\ disk # Stringify(store)) =>
               /\ store' = store
               /\ Stored(store, v) =>
                     /\ resp'.status = 200
                     /\ \E i \in 1..Len(store) : resp'.body = store[i]
                     /\ resp'.body.value = v
               /\ ~Stored(store, v) => resp'.status = 404]_vars

\* a record created while the file could not be written is fetched later
C12_Witness ==
    /\ resp.status = 200
    /\ resp.req \in GetRequests
    /\ disk = Corrupt
    /\ Stored(store, resp.req.path[2])

Records(st) == {st[i] : i \in 1..Len(st)}

\* the step ran the handler of a request: no restart, no tick of the clock
Served == resp'.status # 0 /\ now' = now

\* C14: in every step that handles a request (create, fetch, list,
\* natural-language filter, delete, of this or another value), every record
\* whose value is still stored afterwards is stored with the same id, value,
\* properties and created_at; a fetch answered 200 returns a stored record
\* as it is, its properties being those computed from its value, and the
\* data of a list or natural-language answer consists of stored records as
\* they are.
C14_RecordsAreImmutable ==
    [][Served =>
         /\ \A r \in Records(store) :
               Stored(store', r.value) => r \in Records(store')
         /\ (resp'.status = 200 /\ resp'.req \in GetRequests) =>
               /\ resp'.body \in Records(store)
               /\ resp'.body.properties = analyzeString(resp'.body.value)
               /\ resp'.body.id = resp'.body.properties.sha256_hash
               /\ store' = store
         /\ (resp'.status = 200
                /\ (IsList(resp'.req) \/ IsAsk(resp'.req))) =>
               /\ \A i \in 1..Len(resp'.body.data) :
                     resp'.body.data[i] \in Records(store)
               /\ store' = store]_vars

\* a record created at an earlier instant is fetched, as it was created,
\* after the clock has advanced and another record has been created
C14_Witness ==
    /\ resp.status = 200
    /\ resp.req \in GetRequests
    /\ now = MaxNow
    /\ resp.body.created_at = nowISO(0)
    /\ resp.body \in Records(store)
    /\ \E r \in Records(store) : r.created_at = nowISO(MaxNow)

\* the request carries a min_length and a max_length, both non-negative
\* integers, the first greater than the second
MinAboveMax(q) ==
    /\ q.min_length # Undefined /\ q.max_length # Undefined
    /\ ~InvalidNumber(q, "min_length") /\ ~InvalidNumber(q, "max_length")
    /\ Number(q.min_length.v).n > Number(q.max_length.v).n

\* C15: a list request with min_length greater than max_length is never
\* answered 200 nor with data: it is answered 422 with the conflict message,
\* unless another of its parameters is invalid, which is answered 400; and
\* no 200 list answer reports filters with min_length above max_length.
C15_ListConflictIsRejected ==
    IsList(resp.req) =>
        /\ MinAboveMax(resp.req.query) =>
              /\ resp.status # 200
              /\ DOMAIN resp.body = {"error"}
              /\ resp.status =
                    IF \E q \in {resp.req.query} :
                          \/ /\ q.is_palindrome # Undefined
                             /\ toLowerCase(q.is_palindrome.v)
                                   \notin {"true", "false"}
                          \/ InvalidNumber(q, "word_count")
                          \/ /\ q.contains_character # Undefined
                             /\ Len(q.contains_character.v) # 1
                    THEN 400 ELSE 422
              /\ resp.status = 422 =>
                    resp.body.error =
                        "min_length cannot be greater than max_length"
        /\ resp.status = 200 =>
              \A f \in {resp.body.filters_applied} :
                 (Has(f, "min_length") /\ Has(f, "max_length"))
                     => f.min_length <= f.max_length

\* C16: a fetch of a value is answered 200 with the record of the value
\* when the value is stored (created and not deleted since), and 404 when it
\* is not; a fetch right after the successful create of the value returns
\* the record that create returned, and a fetch right after its successful
\* delete is answered 404.
C16_FetchIffStored ==
    [][\A v \in PathValues :
         (resp'.req = GetOf(v) /\ Serve(GetOf(v), {})) =>
            /\ Stored(store, v) =>
                  /\ resp'.status = 200
                  /\ resp'.body \in Records(store)
                  /\ resp'.body.value = v
            /\ ~Stored(store, v) => resp'.status = 404
            /\ (resp.status = 201 /\ resp.req = CreateOf(v)) =>
                  /\ resp'.status = 200
                  /\ resp'.body = resp.body
            /\ (resp.status = 204 /\ resp.req = DeleteOf(v)) =>
                  resp'.status = 404]_vars

\* C17: a step that serves a GET request (fetch, list, natural-language
\* filter, health) or answers 400, 404, 409 or 422 leaves the Map and the
\* snapshot file as they were; the Map changes only in a create answered
\* 201, which appends exactly the created record, and in a delete answered
\* 204, which removes exactly the record of the deleted value; all other
\* records stay as they are, in their order; the file is written only then.
C17_OnlyCreateAndDeleteMutate ==
    [][Served =>
         /\ (resp'.req.method = "GET"
                \/ resp'.status \in {400, 404, 409, 422}) =>
               /\ store' = store
               /\ disk' = disk
         /\ resp'.status = 201 =>
               /\ resp'.req.method = "POST"
               /\ resp'.req.path = <<"strings">>
               /\ store' = Append(store, resp'.body)
               /\ ~Stored(store, resp'.body.value)
         /\ resp'.status = 204 =>
               /\ resp'.req.method = "DELETE"
               /\ IsValuePath(resp'.req.path)
               /\ Len(store') = Len(store) - 1
               /\ store' = SelectSeq(store,
                                LAMBDA r : r.value # resp'.req.path[2])
         /\ store' # store => resp'.status \in {201, 204}
         /\ disk' # disk => resp'.status \in {201, 204}]_vars

\* a create was refused with 422 and the two stored records and their
\* snapshot are as before
C17_Witness ==
    /\ resp.status = 422
    /\ resp.req.method = "POST"
    /\ resp.req.path = <<"strings">>
    /\ Len(store) >= 2
    /\ disk = Stringify(store)

====
